---- MODULE Spec2Model ----
(***************************************************************************)
(* Model of the two append-only authenticated data structures of the      *)
(* repository: the Merkle Mountain Range of merkle-forests/src/lib.rs and  *)
(* the skip list of skip-lists/src/main.rs.                                *)
(*                                                                         *)
(* Byte strings (Vec<u8>) are sequences of naturals.  Option<T> is a       *)
(* sequence of length 0 (None) or 1 (Some).  Vec indices are 0-based in    *)
(* the source and kept 0-based in the values the model stores; the model   *)
(* adds 1 when it indexes a TLA+ sequence.  A panic is an outcome string.  *)
(***************************************************************************)
EXTENDS Integers, Sequences, FiniteSets, TLC

\* ------------------------------------------------------------------ bounds
MaxEntries == 7

\* Longest input handed to PerfectMerkleTree::new.
MaxLeaves == 8

\* Longest skip list whose every inclusion proof is taken.
MaxNodes == 112

\* Length of the skip list of the inclusion scenario.
InclusionNodes == 1000

\* Every height up to MaxHeight and every base from 2 to MaxBase is handed
\* to calculate_finger_indices.
MaxHeight == 1200
MaxBase == 11

\* Proofs written by the caller are presented to an MMR of at most
\* MaxForgeEntries entries, and hold at most that many entries and at most
\* MaxForgeIndices full tree indices.
MaxForgeEntries == 3
MaxForgeIndices == 2

\* Leaf values offered to add_entry.
EntryValues == {<<1>>, <<2>>}

\* ------------------------------------------------------------ option type
None == <<>>
Some(x) == <<x>>
IsSome(o) == Len(o) = 1
Unwrap(o) == o[1]

\* --------------------------------------------------------- digest oracle
\* First element of every digest; no leaf byte has this value.
HashTag == 256

\* bcs::to_bytes of a Vec<u8>: length prefix, then the bytes.
BcsBytes(v) == <<Len(v)>> \o v

\* bcs::to_bytes(&HashPair { left, right }): the two fields in order.
BcsHashPair(left, right) == BcsBytes(left) \o BcsBytes(right)

\* Blake2b256::digest, collision-free: an injective image of its input.
Blake2b256(bytes) == <<HashTag>> \o bytes

\* ------------------------------------------------------------ MerkleNode
PanicNode ==
    [hash |-> <<>>, node_type |-> "Panic", value |-> None,
     left |-> None, right |-> None, height |-> 0]

\* panic!("Not a perfect binary tree! ...") in PerfectMerkleTree::new.
NotPerfectNode == [PanicNode EXCEPT !.node_type = "NotPerfect"]

\* nodes.into_iter().next().unwrap() on an empty level.
NoRootNode == [PanicNode EXCEPT !.node_type = "NoRoot"]

\* The call that would have produced node panicked instead.
IsPanic(node) == node.node_type \in {"Panic", "NotPerfect", "NoRoot"}

PanicMessage(node) ==
    CASE node.node_type = "Panic" -> "assertion failed: left.height == right.height"
      [] node.node_type = "NotPerfect" -> "Not a perfect binary tree!"
      [] node.node_type = "NoRoot" -> "called Option::unwrap() on a None value"

new_leaf(value) ==
    [hash |-> value, node_type |-> "Leaf", value |-> Some(value),
     left |-> None, right |-> None, height |-> 0]

\* assert!(left.height == right.height) fails: the panic value.
from_children(left, right) ==
    IF left.node_type = "Panic" \/ right.node_type = "Panic"
       \/ left.height # right.height
    THEN PanicNode
    ELSE [hash |-> Blake2b256(BcsHashPair(left.hash, right.hash)),
          node_type |-> "Internal", value |-> None,
          left |-> Some(left), right |-> Some(right),
          height |-> left.height + 1]

\* ----------------------------------------------------- PerfectMerkleTree
\* nodes.chunks(2).map(from_children) on a level of even length.
RECURSIVE PairLevel(_)
PairLevel(nodes) ==
    IF Len(nodes) = 0 THEN <<>>
    ELSE <<from_children(nodes[1], nodes[2])>> \o PairLevel(SubSeq(nodes, 3, Len(nodes)))

\* The while loop without its odd-length panic: a last node without a
\* partner is left out of the next level.
RECURSIVE BuildLevels_DropOdd(_)
BuildLevels_DropOdd(nodes) ==
    IF Len(nodes) <= 1 THEN nodes
    ELSE BuildLevels_DropOdd(PairLevel(SubSeq(nodes, 1, 2 * (Len(nodes) \div 2))))

\* The while loop of PerfectMerkleTree::new.
RECURSIVE BuildLevels(_)
BuildLevels(nodes) ==
    IF Len(nodes) <= 1 THEN nodes
    ELSE IF Len(nodes) % 2 # 0 THEN <<NotPerfectNode>>
    ELSE BuildLevels(PairLevel(nodes))

\* PerfectMerkleTree::new; the root is a panic value when the call panics.
PerfectMerkleTreeNew(data_blocks) ==
    LET leaves == [i \in 1..Len(data_blocks) |-> new_leaf(data_blocks[i])]
        top == BuildLevels(leaves)
    IN  IF Len(top) = 0 THEN [root |-> NoRootNode] ELSE [root |-> top[1]]

tree_height(tree) == tree.root.height

num_leaves(tree) == 2 ^ tree_height(tree)

digest(tree) == tree.root.hash

\* ------------------------------------------------- MerkleMountainRange
\* add_entry whose loop reads the slot without tree.take().
RECURSIVE AddLoop_NoTake(_, _, _)
AddLoop_NoTake(ts, i, k) ==
    IF k > Len(ts) THEN ts
    ELSE IF IsSome(ts[k])
         THEN AddLoop_NoTake(ts, from_children(Unwrap(ts[k]).root, i), k + 1)
         ELSE [ts EXCEPT ![k] = Some([root |-> i])]

\* The for loop of add_entry from slot k on, carrying node i upward.
RECURSIVE AddLoop(_, _, _)
AddLoop(ts, i, k) ==
    IF k > Len(ts) THEN ts
    ELSE IF IsSome(ts[k])
         THEN AddLoop([ts EXCEPT ![k] = None],
                      from_children(Unwrap(ts[k]).root, i), k + 1)
         ELSE [ts EXCEPT ![k] = Some([root |-> i])]

\* add_entry without the trailing self.trees.push(None).
add_entry_trees_NoPush(ts, entry) == AddLoop(ts, new_leaf(entry), 1)

\* add_entry that merges the new node on the left of the old tree.
RECURSIVE AddLoop_NewLeft(_, _, _)
AddLoop_NewLeft(ts, i, k) ==
    IF k > Len(ts) THEN ts
    ELSE IF IsSome(ts[k])
         THEN AddLoop_NewLeft([ts EXCEPT ![k] = None],
                              from_children(i, Unwrap(ts[k]).root), k + 1)
         ELSE [ts EXCEPT ![k] = Some([root |-> i])]

add_entry_trees_NewLeft(ts, entry) ==
    LET installed == AddLoop_NewLeft(ts, new_leaf(entry), 1)
    IN  IF IsSome(installed[Len(installed)])
        THEN Append(installed, None)
        ELSE installed

\* trees after add_entry(entry).
add_entry_trees(ts, entry) ==
    LET installed == AddLoop(ts, new_leaf(entry), 1)
    IN  IF IsSome(installed[Len(installed)])
        THEN Append(installed, None)
        ELSE installed

\* ---------------------------------------------------------- SuffixProof
\* collect_proof_nodes that records the right child where the suffix lies
\* in the right subtree.
RECURSIVE collect_proof_nodes_EmitRight(_, _, _, _, _)
collect_proof_nodes_EmitRight(node, subtree_start, subtree_size, first_suffix_index, suffix_size) ==
    IF subtree_size = 1 THEN <<>>
    ELSE
      LET mid == subtree_start + subtree_size \div 2
      IN  IF first_suffix_index >= mid
          THEN <<Unwrap(node.right).hash>>
               \o collect_proof_nodes_EmitRight(Unwrap(node.right), mid, subtree_size \div 2,
                                                first_suffix_index, suffix_size)
          ELSE collect_proof_nodes_EmitRight(Unwrap(node.left), subtree_start,
                                             subtree_size \div 2,
                                             first_suffix_index, mid - first_suffix_index)
               \o collect_proof_nodes_EmitRight(Unwrap(node.right), mid, subtree_size \div 2,
                                                mid, first_suffix_index + suffix_size - mid)

\* collect_proof_nodes: the hashes pushed onto proof_nodes, in push order.
RECURSIVE collect_proof_nodes(_, _, _, _, _)
collect_proof_nodes(node, subtree_start, subtree_size, first_suffix_index, suffix_size) ==
    IF subtree_size = 1 THEN <<>>
    ELSE
      LET mid == subtree_start + subtree_size \div 2
      IN  IF first_suffix_index >= mid
          THEN (IF IsSome(node.left) THEN <<Unwrap(node.left).hash>> ELSE <<>>)
               \o (IF IsSome(node.right)
                   THEN collect_proof_nodes(Unwrap(node.right), mid, subtree_size \div 2,
                                            first_suffix_index, suffix_size)
                   ELSE <<>>)
          ELSE IF first_suffix_index + suffix_size <= mid
          THEN (IF IsSome(node.right) THEN <<Unwrap(node.right).hash>> ELSE <<>>)
               \o (IF IsSome(node.left)
                   THEN collect_proof_nodes(Unwrap(node.left), subtree_start, subtree_size \div 2,
                                            first_suffix_index, suffix_size)
                   ELSE <<>>)
          ELSE (IF IsSome(node.left)
                THEN collect_proof_nodes(Unwrap(node.left), subtree_start, subtree_size \div 2,
                                         first_suffix_index, mid - first_suffix_index)
                ELSE <<>>)
               \o (IF IsSome(node.right)
                   THEN collect_proof_nodes(Unwrap(node.right), mid, subtree_size \div 2,
                                            mid, first_suffix_index + suffix_size - mid)
                   ELSE <<>>)

\* collect_proof_nodes again, as the branch each call takes, in call order:
\* "right" where the suffix lies in the right subtree, "left" where it lies
\* in the left subtree, "both" where it spans the two.
RECURSIVE collect_proof_branches(_, _, _, _, _)
collect_proof_branches(node, subtree_start, subtree_size, first_suffix_index, suffix_size) ==
    IF subtree_size = 1 THEN <<>>
    ELSE
      LET mid == subtree_start + subtree_size \div 2
      IN  IF first_suffix_index >= mid
          THEN <<"right">>
               \o (IF IsSome(node.right)
                   THEN collect_proof_branches(Unwrap(node.right), mid, subtree_size \div 2,
                                               first_suffix_index, suffix_size)
                   ELSE <<>>)
          ELSE IF first_suffix_index + suffix_size <= mid
          THEN <<"left">>
               \o (IF IsSome(node.left)
                   THEN collect_proof_branches(Unwrap(node.left), subtree_start,
                                               subtree_size \div 2,
                                               first_suffix_index, suffix_size)
                   ELSE <<>>)
          ELSE <<"both">>
               \o (IF IsSome(node.left)
                   THEN collect_proof_branches(Unwrap(node.left), subtree_start,
                                               subtree_size \div 2,
                                               first_suffix_index, mid - first_suffix_index)
                   ELSE <<>>)
               \o (IF IsSome(node.right)
                   THEN collect_proof_branches(Unwrap(node.right), mid, subtree_size \div 2,
                                               mid, first_suffix_index + suffix_size - mid)
                   ELSE <<>>)

\* PerfectMerkleTree::prove_most_recent_n_elements: status and SuffixProof.
tree_prove_most_recent_n_elements(tree, num_suffix_elements) ==
    IF ~(num_suffix_elements > 0)
    THEN [status |-> "assertion failed: num_suffix_elements > 0", proof |-> None]
    ELSE IF ~(num_suffix_elements <= num_leaves(tree))
    THEN [status |-> "assertion failed: num_suffix_elements <= self.num_leaves()", proof |-> None]
    ELSE [status |-> "ok",
          proof |-> Some([num_suffix_elements |-> num_suffix_elements,
                          proof |-> collect_proof_nodes(tree.root, 0, num_leaves(tree),
                                        num_leaves(tree) - num_suffix_elements,
                                        num_suffix_elements)])]

\* The inner pairing loop of verify_suffix_proof from 0-based index i on.
RECURSIVE PairRemaining(_, _)
PairRemaining(current_hashes, i) ==
    IF ~(i < Len(current_hashes)) THEN <<>>
    ELSE IF i + 1 < Len(current_hashes)
    THEN <<Blake2b256(BcsHashPair(current_hashes[i + 1], current_hashes[i + 2]))>>
         \o PairRemaining(current_hashes, i + 2)
    ELSE <<current_hashes[i + 1]>> \o PairRemaining(current_hashes, i + 1)

\* The level-by-level while loop of verify_suffix_proof.
RECURSIVE VerifyLevels(_, _, _, _)
VerifyLevels(proof_hashes, current_hashes, proof_index, level_start_index) ==
    IF ~(Len(current_hashes) > 1 \/ level_start_index > 0)
    THEN [status |-> "ok", current_hashes |-> current_hashes, proof_index |-> proof_index]
    ELSE IF level_start_index % 2 = 1
    THEN IF ~(proof_index > 0)
         THEN [status |-> "Not enough proof elements",
               current_hashes |-> current_hashes, proof_index |-> proof_index]
         ELSE IF Len(current_hashes) = 0
         THEN [status |-> "index out of bounds",
               current_hashes |-> current_hashes, proof_index |-> proof_index]
         ELSE VerifyLevels(proof_hashes,
                  <<Blake2b256(BcsHashPair(proof_hashes[proof_index], current_hashes[1]))>>
                      \o PairRemaining(current_hashes, 1),
                  proof_index - 1,
                  (level_start_index - 1) \div 2)
    ELSE VerifyLevels(proof_hashes, PairRemaining(current_hashes, 0),
                      proof_index, level_start_index \div 2)

\* The while loop of verify_suffix_proof again, as the number of times its
\* inner loop takes the branch "Odd element, carry forward": once in a
\* level where an odd number of hashes is left to pair.
RECURSIVE VerifyLevelsCarried(_, _, _, _)
VerifyLevelsCarried(proof_hashes, current_hashes, proof_index, level_start_index) ==
    IF ~(Len(current_hashes) > 1 \/ level_start_index > 0)
    THEN 0
    ELSE IF level_start_index % 2 = 1
    THEN IF ~(proof_index > 0) \/ Len(current_hashes) = 0
         THEN 0
         ELSE ((Len(current_hashes) - 1) % 2)
              + VerifyLevelsCarried(proof_hashes,
                  <<Blake2b256(BcsHashPair(proof_hashes[proof_index], current_hashes[1]))>>
                      \o PairRemaining(current_hashes, 1),
                  proof_index - 1,
                  (level_start_index - 1) \div 2)
    ELSE (Len(current_hashes) % 2)
         + VerifyLevelsCarried(proof_hashes, PairRemaining(current_hashes, 0),
                               proof_index, level_start_index \div 2)

\* verify_suffix_proof without the comparison against self.root.hash.
verify_suffix_proof_NoRootCheck(tree, suffix_elements, proof) ==
    IF Len(suffix_elements) # proof.num_suffix_elements
    THEN "assertion failed: suffix_elements.len() == proof.num_suffix_elements"
    ELSE IF proof.num_suffix_elements > num_leaves(tree)
    THEN "attempt to subtract with overflow"
    ELSE
      LET built == VerifyLevels(proof.proof, suffix_elements, Len(proof.proof),
                                num_leaves(tree) - proof.num_suffix_elements)
      IN  IF built.status # "ok" THEN built.status
          ELSE IF built.proof_index # 0 THEN "Not all proof elements were used"
          ELSE IF Len(built.current_hashes) # 1 THEN "Should have exactly one root hash"
          ELSE "ok"

\* PerfectMerkleTree::verify_suffix_proof: "ok" or the panic message.
\* num_leaves - proof.num_suffix_elements is a usize subtraction: with more
\* suffix elements than leaves it panics where overflow checks are on.
verify_suffix_proof(tree, suffix_elements, proof) ==
    IF Len(suffix_elements) # proof.num_suffix_elements
    THEN "assertion failed: suffix_elements.len() == proof.num_suffix_elements"
    ELSE IF proof.num_suffix_elements > num_leaves(tree)
    THEN "attempt to subtract with overflow"
    ELSE
      LET first_suffix_index == num_leaves(tree) - proof.num_suffix_elements
          built == VerifyLevels(proof.proof, suffix_elements, Len(proof.proof),
                                first_suffix_index)
      IN  IF built.status # "ok" THEN built.status
          ELSE IF built.proof_index # 0 THEN "Not all proof elements were used"
          ELSE IF Len(built.current_hashes) # 1 THEN "Should have exactly one root hash"
          ELSE IF built.current_hashes[1] # tree.root.hash
          THEN "Computed root doesn't match expected root"
          ELSE "ok"

\* --------------------------------------------- MostRecentNElementsProof
\* The loop that takes a tree in full only when it is strictly smaller than
\* what remains: if tree.num_leaves() < remaining_elements.
RECURSIVE ProveLoop_StrictLess(_, _, _, _)
ProveLoop_StrictLess(ts, tree_index, remaining_elements, proof) ==
    IF tree_index >= Len(ts) \/ remaining_elements = 0
    THEN [status |-> IF remaining_elements = 0 THEN "ok"
                     ELSE "assertion failed: remaining_elements == 0",
          proof |-> proof]
    ELSE IF IsSome(ts[tree_index + 1])
    THEN LET tree == Unwrap(ts[tree_index + 1])
         IN  IF num_leaves(tree) < remaining_elements
             THEN ProveLoop_StrictLess(ts, tree_index + 1,
                            remaining_elements - num_leaves(tree),
                            [proof EXCEPT !.full_tree_indices = Append(@, tree_index)])
             ELSE LET sub == tree_prove_most_recent_n_elements(tree, remaining_elements)
                  IN  [status |-> sub.status,
                       proof |-> [proof EXCEPT !.partial_tree_proof =
                                     IF IsSome(sub.proof)
                                     THEN Some(<<tree_index, Unwrap(sub.proof)>>)
                                     ELSE None]]
    ELSE ProveLoop_StrictLess(ts, tree_index + 1, remaining_elements, proof)

\* The for loop of MerkleMountainRange::prove_most_recent_n_elements from
\* 0-based slot tree_index on.
RECURSIVE ProveLoop(_, _, _, _)
ProveLoop(ts, tree_index, remaining_elements, proof) ==
    IF tree_index >= Len(ts) \/ remaining_elements = 0
    THEN [status |-> IF remaining_elements = 0 THEN "ok"
                     ELSE "assertion failed: remaining_elements == 0",
          proof |-> proof]
    ELSE IF IsSome(ts[tree_index + 1])
    THEN LET tree == Unwrap(ts[tree_index + 1])
         IN  IF num_leaves(tree) <= remaining_elements
             THEN ProveLoop(ts, tree_index + 1, remaining_elements - num_leaves(tree),
                            [proof EXCEPT !.full_tree_indices = Append(@, tree_index)])
             ELSE LET sub == tree_prove_most_recent_n_elements(tree, remaining_elements)
                  IN  [status |-> sub.status,
                       proof |-> [proof EXCEPT !.partial_tree_proof =
                                     IF IsSome(sub.proof)
                                     THEN Some(<<tree_index, Unwrap(sub.proof)>>)
                                     ELSE None]]
    ELSE ProveLoop(ts, tree_index + 1, remaining_elements, proof)

\* prove_most_recent_n_elements that lowers a request for more than
\* entries.len() elements to entries.len() instead of asserting.
mmr_prove_most_recent_n_elements_Clamp(es, ts, num_suffix_elements) ==
    LET n == IF num_suffix_elements <= Len(es) THEN num_suffix_elements ELSE Len(es)
        start_index == Len(es) - n
        r == ProveLoop(ts, 0, n,
                 [entries |-> SubSeq(es, start_index + 1, Len(es)),
                  full_tree_indices |-> <<>>,
                  partial_tree_proof |-> None])
    IN  [status |-> r.status,
         proof |-> IF r.status = "ok" THEN Some(r.proof) ELSE None]

\* MerkleMountainRange::prove_most_recent_n_elements: status and proof.
mmr_prove_most_recent_n_elements(es, ts, num_suffix_elements) ==
    IF ~(num_suffix_elements <= Len(es))
    THEN [status |-> "assertion failed: num_suffix_elements <= self.entries.len()",
          proof |-> None]
    ELSE LET start_index == Len(es) - num_suffix_elements
             r == ProveLoop(ts, 0, num_suffix_elements,
                      [entries |-> SubSeq(es, start_index + 1, Len(es)),
                       full_tree_indices |-> <<>>,
                       partial_tree_proof |-> None])
         IN  [status |-> r.status,
              proof |-> IF r.status = "ok" THEN Some(r.proof) ELSE None]

\* The partial-tree block of verify_most_recent_n_elements: status, the
\* leaves it covers and the entry offset it leaves.
VerifyPartial(ts, proof) ==
    IF ~IsSome(proof.partial_tree_proof)
    THEN [status |-> "ok", covered |-> 0, entry_offset |-> 0]
    ELSE
      LET tree_index == Unwrap(proof.partial_tree_proof)[1]
          suffix_proof == Unwrap(proof.partial_tree_proof)[2]
          partial_elements == suffix_proof.num_suffix_elements
      IN  IF ~(tree_index < Len(ts))
          THEN [status |-> "Tree index out of bounds", covered |-> 0, entry_offset |-> 0]
          ELSE IF ~IsSome(ts[tree_index + 1])
          THEN [status |-> "Tree at index doesn't exist", covered |-> 0, entry_offset |-> 0]
          ELSE IF ~(partial_elements <= Len(proof.entries))
          THEN [status |-> "Partial tree entries out of bounds",
                covered |-> partial_elements, entry_offset |-> 0]
          ELSE [status |-> verify_suffix_proof(Unwrap(ts[tree_index + 1]),
                               SubSeq(proof.entries, 1, partial_elements), suffix_proof),
                covered |-> partial_elements, entry_offset |-> partial_elements]

\* The loop over full_tree_indices without .rev(): j counts the indices
\* left, taken from the front.
RECURSIVE VerifyFull_Forward(_, _, _, _, _)
VerifyFull_Forward(ts, proof, j, total_leaves_covered, entry_offset) ==
    IF j = 0
    THEN IF total_leaves_covered # Len(proof.entries)
         THEN "Not all entries were accounted for"
         ELSE "ok"
    ELSE
      LET tree_index == proof.full_tree_indices[Len(proof.full_tree_indices) - j + 1]
      IN  IF ~(tree_index < Len(ts)) THEN "Tree index out of bounds"
          ELSE IF ~IsSome(ts[tree_index + 1]) THEN "Tree at index doesn't exist"
          ELSE
            LET tree == Unwrap(ts[tree_index + 1])
                tree_entries_end == entry_offset + num_leaves(tree)
            IN  IF ~(tree_entries_end <= Len(proof.entries))
                THEN "Tree entries out of bounds"
                ELSE IF digest(PerfectMerkleTreeNew(
                            SubSeq(proof.entries, entry_offset + 1, tree_entries_end)))
                        # digest(tree)
                THEN "Reconstructed tree digest doesn't match expected"
                ELSE VerifyFull_Forward(ts, proof, j - 1,
                         total_leaves_covered + num_leaves(tree), tree_entries_end)

\* The loop over full_tree_indices without the final count comparison.
RECURSIVE VerifyFull_NoCount(_, _, _, _, _)
VerifyFull_NoCount(ts, proof, j, total_leaves_covered, entry_offset) ==
    IF j = 0 THEN "ok"
    ELSE
      LET tree_index == proof.full_tree_indices[j]
      IN  IF ~(tree_index < Len(ts)) THEN "Tree index out of bounds"
          ELSE IF ~IsSome(ts[tree_index + 1]) THEN "Tree at index doesn't exist"
          ELSE
            LET tree == Unwrap(ts[tree_index + 1])
                tree_entries_end == entry_offset + num_leaves(tree)
            IN  IF ~(tree_entries_end <= Len(proof.entries))
                THEN "Tree entries out of bounds"
                ELSE IF digest(PerfectMerkleTreeNew(
                            SubSeq(proof.entries, entry_offset + 1, tree_entries_end)))
                        # digest(tree)
                THEN "Reconstructed tree digest doesn't match expected"
                ELSE VerifyFull_NoCount(ts, proof, j - 1,
                         total_leaves_covered + num_leaves(tree), tree_entries_end)

\* The loop over full_tree_indices.iter().rev(), at 1-based position j of
\* full_tree_indices (j = 0: loop finished).
RECURSIVE VerifyFull(_, _, _, _, _)
VerifyFull(ts, proof, j, total_leaves_covered, entry_offset) ==
    IF j = 0
    THEN IF total_leaves_covered # Len(proof.entries)
         THEN "Not all entries were accounted for"
         ELSE "ok"
    ELSE
      LET tree_index == proof.full_tree_indices[j]
      IN  IF ~(tree_index < Len(ts)) THEN "Tree index out of bounds"
          ELSE IF ~IsSome(ts[tree_index + 1]) THEN "Tree at index doesn't exist"
          ELSE
            LET tree == Unwrap(ts[tree_index + 1])
                tree_leaves == num_leaves(tree)
                tree_entries_end == entry_offset + tree_leaves
            IN  IF ~(tree_entries_end <= Len(proof.entries))
                THEN "Tree entries out of bounds"
                ELSE
                  LET reconstructed == PerfectMerkleTreeNew(
                          SubSeq(proof.entries, entry_offset + 1, tree_entries_end))
                  IN  IF IsPanic(reconstructed.root)
                      THEN PanicMessage(reconstructed.root)
                      ELSE IF digest(reconstructed) # digest(tree)
                      THEN "Reconstructed tree digest doesn't match expected"
                      ELSE VerifyFull(ts, proof, j - 1,
                                      total_leaves_covered + tree_leaves, tree_entries_end)

\* The verifier without assert!(!proof.entries.is_empty()).
verify_most_recent_n_elements_NoEmptyCheck(ts, proof) ==
    LET part == VerifyPartial(ts, proof)
    IN  IF part.status # "ok" THEN part.status
        ELSE VerifyFull(ts, proof, Len(proof.full_tree_indices),
                        part.covered, part.entry_offset)

\* MerkleMountainRange::verify_most_recent_n_elements: "ok" or the panic.
verify_most_recent_n_elements(ts, proof) ==
    IF Len(proof.entries) = 0 THEN "Proof entries cannot be empty"
    ELSE LET part == VerifyPartial(ts, proof)
         IN  IF part.status # "ok" THEN part.status
             ELSE VerifyFull(ts, proof, Len(proof.full_tree_indices),
                             part.covered, part.entry_offset)

\* num_trees: ceil(log2(n)) as the least x with 2^x >= n; log2(0) is
\* -inf, which the cast to usize saturates to 0.
RECURSIVE CeilLog2From(_, _)
CeilLog2From(n, x) == IF 2 ^ x >= n THEN x ELSE CeilLog2From(n, x + 1)

num_trees(n) ==
    LET x == CeilLog2From(n, 0)
    IN  IF n = 2 ^ x THEN x + 2 ELSE x + 1

\* -------------------------------------------------------------- SkipList
DEFAULT_BASE == 10

\* The loop that pushes z without the !fingers.contains(&z) test.
RECURSIVE FingerLoop_NoContains(_, _, _, _)
FingerLoop_NoContains(x, y, base, fingers) ==
    IF ~(x >= y) THEN fingers
    ELSE FingerLoop_NoContains(x, y * base, base, Append(fingers, (x \div y) * y))

\* The loop that runs one round more: while x * base >= y.
RECURSIVE FingerLoop_ExtraRound(_, _, _, _)
FingerLoop_ExtraRound(x, y, base, fingers) ==
    IF ~(x * base >= y) THEN fingers
    ELSE LET z == (x \div y) * y
         IN  FingerLoop_ExtraRound(x, y * base, base,
                        IF \E j \in 1..Len(fingers) : fingers[j] = z
                        THEN fingers ELSE Append(fingers, z))

\* The loop of calculate_finger_indices from y on, fingers collected so far.
RECURSIVE FingerLoop(_, _, _, _)
FingerLoop(x, y, base, fingers) ==
    IF ~(x >= y) THEN fingers
    ELSE LET z == (x \div y) * y
         IN  FingerLoop(x, y * base, base,
                        IF \E j \in 1..Len(fingers) : fingers[j] = z
                        THEN fingers ELSE Append(fingers, z))

\* calculate_finger_indices that starts from height instead of height - 1.
calculate_finger_indices_NoMinusOne(height, base) == FingerLoop(height, 1, base, <<>>)

calculate_finger_indices(height, base) == FingerLoop(height - 1, 1, base, <<>>)

\* Node::first
first(val) == [value |-> val, height |-> 1, fingers |-> <<>>]

\* The keys of a fingers map in increasing order.
RECURSIVE SortedKeys(_)
SortedKeys(keys) ==
    IF keys = {} THEN <<>>
    ELSE LET m == CHOOSE k \in keys : \A j \in keys : k <= j
         IN  <<m>> \o SortedKeys(keys \ {m})

\* What Node::digest feeds the hasher: the value, the height, then each
\* finger index with its digest, indices increasing; every field has a
\* fixed width, so the fields are kept as the elements of a sequence.
RECURSIVE FingerBytes(_, _)
FingerBytes(fingers, finger_indices) ==
    IF Len(finger_indices) = 0 THEN <<>>
    ELSE <<finger_indices[1], fingers[finger_indices[1]]>>
         \o FingerBytes(fingers, Tail(finger_indices))

HasherInput(node) ==
    <<node.value, node.height>> \o FingerBytes(node.fingers, SortedKeys(DOMAIN node.fingers))

\* Sha256, collision-free: the digest of an input already hashed is its
\* position in the oracle table, a new input gets the next digest.
Sha256(table, input) ==
    IF \E d \in 1..Len(table) : table[d] = input
    THEN CHOOSE d \in 1..Len(table) : table[d] = input
    ELSE Len(table) + 1

\* The oracle table after hashing input.
Hashed(table, input) ==
    IF \E d \in 1..Len(table) : table[d] = input THEN table ELSE Append(table, input)

\* Node::digest
node_digest(table, node) == Sha256(table, HasherInput(node))

\* The for loop of next_fingers over finger_indices from position j on.
RECURSIVE NextFingersLoop(_, _, _, _, _)
NextFingersLoop(table, self, finger_indices, j, new_h) ==
    IF j > Len(finger_indices) THEN [status |-> "ok", fingers |-> new_h]
    ELSE LET idx == finger_indices[j]
         IN  IF idx \in DOMAIN self.fingers
             THEN NextFingersLoop(table, self, finger_indices, j + 1,
                      [k \in DOMAIN new_h \cup {idx} |->
                          IF k = idx THEN self.fingers[idx] ELSE new_h[k]])
             ELSE IF idx = self.height
             THEN NextFingersLoop(table, self, finger_indices, j + 1,
                      [k \in DOMAIN new_h \cup {idx} |->
                          IF k = idx THEN node_digest(table, self) ELSE new_h[k]])
             ELSE [status |-> "Unexpected idx", fingers |-> new_h]

\* next_fingers that keeps only the finger to the previous node.
next_fingers_PrevOnly(table, self) ==
    [status |-> "ok",
     fingers |-> [k \in {self.height} |-> node_digest(table, self)]]

\* Node::next_fingers
next_fingers(table, self) ==
    NextFingersLoop(table, self,
                    calculate_finger_indices(self.height + 1, DEFAULT_BASE), 1, <<>>)

\* Node::next: status and the new node.
next(table, self, new_value) ==
    LET f == next_fingers(table, self)
    IN  [status |-> f.status,
         node |-> [value |-> new_value, height |-> self.height + 1, fingers |-> f.fingers]]

\* The closest finger among the keys strictly above h: filter finger > h.
closest_finger_Above(cur_node, h) ==
    LET candidates == {finger \in DOMAIN cur_node.fingers : finger > h}
    IN  IF candidates = {} THEN None
        ELSE Some(CHOOSE finger \in candidates :
                     \A other \in candidates : finger - h <= other - h)

\* The finger get_inclusion_proof follows from cur_node towards height h:
\* the key >= h that minimises key - h, None when there is none.
closest_finger(cur_node, h) ==
    LET candidates == {finger \in DOMAIN cur_node.fingers : finger >= h}
    IN  IF candidates = {} THEN None
        ELSE Some(CHOOSE finger \in candidates :
                     \A other \in candidates : finger - h <= other - h)

\* The while loop of get_inclusion_proof pushing the node it hops to
\* instead of the node it leaves.
RECURSIVE InclusionWalk_PushNext(_, _, _, _)
InclusionWalk_PushNext(ns, cur_node, h, walked) ==
    IF ~(cur_node.height > h)
    THEN [status |-> "ok", path |-> walked]
    ELSE LET closest == closest_finger(cur_node, h)
         IN  IF ~IsSome(closest)
             THEN [status |-> "At least one finger must be found", path |-> <<>>]
             ELSE InclusionWalk_PushNext(ns, ns[Unwrap(closest)], h,
                                         Append(walked, ns[Unwrap(closest)]))

\* The while loop of get_inclusion_proof.
RECURSIVE InclusionWalk(_, _, _, _)
InclusionWalk(ns, cur_node, h, walked) ==
    IF ~(cur_node.height > h)
    THEN IF cur_node.height < h
         THEN [status |-> "Should not happen", path |-> <<>>]
         ELSE [status |-> "ok", path |-> walked]
    ELSE LET closest == closest_finger(cur_node, h)
         IN  IF ~IsSome(closest)
             THEN [status |-> "At least one finger must be found", path |-> <<>>]
             ELSE IF ~(Unwrap(closest) - 1 \in 0..(Len(ns) - 1))
             THEN [status |-> "index out of bounds", path |-> <<>>]
             ELSE InclusionWalk(ns, ns[Unwrap(closest)], h, Append(walked, cur_node))

\* SkipList::get_inclusion_proof: status and the path.
get_inclusion_proof(ns, h) ==
    IF ~(h <= Len(ns))
    THEN [status |-> "assertion failed: h <= self.nodes.len()", path |-> <<>>]
    ELSE IF Len(ns) = 0
    THEN [status |-> "One node must exist", path |-> <<>>]
    ELSE InclusionWalk(ns, ns[Len(ns)], h, <<>>)

\* ------------------------------------------------------------------ state
VARIABLES
    entries,   \* MerkleMountainRange.entries
    trees,     \* MerkleMountainRange.trees
    proof,     \* Option<MostRecentNElementsProof> held by the caller
    tamper,    \* how the caller has altered proof since it was generated
    tree,      \* Option<PerfectMerkleTree> built by PerfectMerkleTree::new
    sproof,    \* Option<SuffixProof> held by the caller of the tree
    suffix,    \* the suffix_elements the caller passes with sproof
    nodes,     \* SkipList.nodes
    sha,       \* the Sha256 oracle: sha[d] is the input whose digest is d
    path,      \* the Vec<Node> returned by the last get_inclusion_proof
    asked,     \* the numeric argument of the last new / prove / add call
    called,    \* the last call of calculate_finger_indices and its result
    outcome    \* the last call and how it ended ("ok" or the panic message)

vars == <<entries, trees, proof, tamper, tree, sproof, suffix, nodes, sha, path,
          asked, called, outcome>>

mmrVars == <<entries, trees, proof, tamper>>
treeVars == <<tree, sproof, suffix>>
skipVars == <<nodes, sha, path>>

\* MerkleMountainRange::new(vec![]); no tree built yet.
Init ==
    /\ entries = <<>>
    /\ trees = <<None>>
    /\ proof = None
    /\ tamper = "none"
    /\ tree = None
    /\ sproof = None
    /\ suffix = <<>>
    /\ nodes = <<>>
    /\ sha = <<>>
    /\ path = <<>>
    /\ asked = 0
    /\ called = None
    /\ outcome = [op |-> "new", status |-> "ok"]

RECURSIVE HasPanic(_)
HasPanic(node) ==
    \/ node.node_type = "Panic"
    \/ (IsSome(node.left) /\ HasPanic(Unwrap(node.left)))
    \/ (IsSome(node.right) /\ HasPanic(Unwrap(node.right)))

\* add_entry that puts the new entry in front: self.entries.insert(0, entry).
AddEntry_InsertFront(entry) ==
    /\ Len(entries) < MaxEntries
    /\ entries' = <<entry>> \o entries
    /\ trees' = add_entry_trees(trees, entry)
    /\ proof' = None
    /\ tamper' = "none"
    /\ outcome' = [op |-> "add_entry",
                   status |-> IF \E k \in 1..Len(trees') :
                                    IsSome(trees'[k]) /\ HasPanic(Unwrap(trees'[k]).root)
                              THEN "assertion failed: left.height == right.height"
                              ELSE "ok"]
    /\ UNCHANGED treeVars
    /\ UNCHANGED skipVars
    /\ asked' = 0
    /\ UNCHANGED called

\* mmr.add_entry(entry); a proof taken before the append is dropped.
AddEntry(entry) ==
    /\ Len(entries) < MaxEntries
    /\ entries' = Append(entries, entry)
    /\ trees' = add_entry_trees(trees, entry)
    /\ proof' = None
    /\ tamper' = "none"
    /\ outcome' = [op |-> "add_entry",
                   status |-> IF \E k \in 1..Len(trees') :
                                    IsSome(trees'[k]) /\ HasPanic(Unwrap(trees'[k]).root)
                              THEN "assertion failed: left.height == right.height"
                              ELSE "ok"]
    /\ UNCHANGED treeVars
    /\ UNCHANGED skipVars
    /\ asked' = 0
    /\ UNCHANGED called

\* let proof = mmr.prove_most_recent_n_elements(n); the caller takes one
\* proof per state of the MMR.
ProveMostRecent(n) ==
    /\ proof = None
    /\ LET r == mmr_prove_most_recent_n_elements(entries, trees, n)
       IN  /\ proof' = r.proof
           /\ outcome' = [op |-> "prove_most_recent_n_elements", status |-> r.status]
    /\ tamper' = "none"
    /\ UNCHANGED <<entries, trees>>
    /\ UNCHANGED treeVars
    /\ UNCHANGED skipVars
    /\ asked' = n
    /\ UNCHANGED called

\* How a call that the model ends in status ends in either build.  The
\* subtraction self.num_leaves() - proof.num_suffix_elements panics on
\* overflow in a debug build and wraps in a release build; the wrapped
\* index 2^64 - d is odd at all but its lowest levels, so the loop asks for
\* some sixty left siblings and panics when the proof runs out of them.
BuildOutcomes(status) ==
    IF status = "attempt to subtract with overflow"
    THEN {status, "Not enough proof elements"}
    ELSE {status}

\* mmr.verify_most_recent_n_elements(&proof)
VerifyMostRecent ==
    /\ IsSome(proof)
    /\ outcome.op # "verify_most_recent_n_elements"
    /\ \E status \in BuildOutcomes(verify_most_recent_n_elements(trees, Unwrap(proof))) :
          outcome' = [op |-> "verify_most_recent_n_elements", status |-> status]
    /\ UNCHANGED mmrVars
    /\ UNCHANGED treeVars
    /\ UNCHANGED skipVars
    /\ UNCHANGED asked
    /\ UNCHANGED called

\* Values a caller may write over an entry or a sibling hash.
TamperValues == EntryValues \cup {<<9>>} \cup
    {digest(Unwrap(trees[k])) : k \in {j \in 1..Len(trees) : IsSome(trees[j])}}

\* proof.entries[i] = v, for a v that differs from the entry.
TamperEntry(i, v) ==
    /\ IsSome(proof)
    /\ tamper = "none"
    /\ i \in 1..Len(Unwrap(proof).entries)
    /\ v # Unwrap(proof).entries[i]
    /\ proof' = Some([Unwrap(proof) EXCEPT !.entries[i] = v])
    /\ tamper' = "entry"
    /\ outcome' = [op |-> "tamper", status |-> "ok"]
    /\ UNCHANGED <<entries, trees>>
    /\ UNCHANGED treeVars
    /\ UNCHANGED skipVars
    /\ UNCHANGED asked
    /\ UNCHANGED called

\* One sibling hash of the partial tree's SuffixProof replaced.
TamperSibling(i, v) ==
    /\ IsSome(proof)
    /\ tamper = "none"
    /\ IsSome(Unwrap(proof).partial_tree_proof)
    /\ LET pt == Unwrap(Unwrap(proof).partial_tree_proof)
       IN  /\ i \in 1..Len(pt[2].proof)
           /\ v # pt[2].proof[i]
           /\ proof' = Some([Unwrap(proof) EXCEPT !.partial_tree_proof =
                               Some(<<pt[1], [pt[2] EXCEPT !.proof[i] = v]>>)])
    /\ tamper' = "sibling"
    /\ outcome' = [op |-> "tamper", status |-> "ok"]
    /\ UNCHANGED <<entries, trees>>
    /\ UNCHANGED treeVars
    /\ UNCHANGED skipVars
    /\ UNCHANGED asked
    /\ UNCHANGED called

\* proof.full_tree_indices[i] = idx, for an idx that differs from it.
TamperIndex(i, idx) ==
    /\ IsSome(proof)
    /\ tamper = "none"
    /\ i \in 1..Len(Unwrap(proof).full_tree_indices)
    /\ idx # Unwrap(proof).full_tree_indices[i]
    /\ proof' = Some([Unwrap(proof) EXCEPT !.full_tree_indices[i] = idx])
    /\ tamper' = "index"
    /\ outcome' = [op |-> "tamper", status |-> "ok"]
    /\ UNCHANGED <<entries, trees>>
    /\ UNCHANGED treeVars
    /\ UNCHANGED skipVars
    /\ UNCHANGED asked
    /\ UNCHANGED called
\* proof.entries.pop()
PopEntry ==
    /\ IsSome(proof)
    /\ tamper = "none"
    /\ Len(Unwrap(proof).entries) >= 1
    /\ proof' = Some([Unwrap(proof) EXCEPT !.entries =
                        SubSeq(@, 1, Len(@) - 1)])
    /\ tamper' = "pop"
    /\ outcome' = [op |-> "tamper", status |-> "ok"]
    /\ UNCHANGED <<entries, trees>>
    /\ UNCHANGED treeVars
    /\ UNCHANGED skipVars
    /\ UNCHANGED asked
    /\ UNCHANGED called

\* proof.entries.clear()
ClearEntries ==
    /\ IsSome(proof)
    /\ tamper = "none"
    /\ Len(Unwrap(proof).entries) >= 1
    /\ proof' = Some([Unwrap(proof) EXCEPT !.entries = <<>>])
    /\ tamper' = "clear"
    /\ outcome' = [op |-> "tamper", status |-> "ok"]
    /\ UNCHANGED <<entries, trees>>
    /\ UNCHANGED treeVars
    /\ UNCHANGED skipVars
    /\ UNCHANGED asked
    /\ UNCHANGED called

\* Sibling hash i of the partial tree's SuffixProof removed.
DropSibling(i) ==
    /\ IsSome(proof)
    /\ tamper = "none"
    /\ IsSome(Unwrap(proof).partial_tree_proof)
    /\ LET pt == Unwrap(Unwrap(proof).partial_tree_proof)
           hs == pt[2].proof
       IN  /\ i \in 1..Len(hs)
           /\ proof' = Some([Unwrap(proof) EXCEPT !.partial_tree_proof =
                               Some(<<pt[1], [pt[2] EXCEPT !.proof =
                                   SubSeq(hs, 1, i - 1) \o SubSeq(hs, i + 1, Len(hs))]>>)])
    /\ tamper' = "drop_sibling"
    /\ outcome' = [op |-> "tamper", status |-> "ok"]
    /\ UNCHANGED <<entries, trees>>
    /\ UNCHANGED treeVars
    /\ UNCHANGED skipVars
    /\ UNCHANGED asked
    /\ UNCHANGED called

\* A hash v inserted before sibling i of the partial tree's SuffixProof.
ExtraSibling(i, v) ==
    /\ IsSome(proof)
    /\ tamper = "none"
    /\ IsSome(Unwrap(proof).partial_tree_proof)
    /\ LET pt == Unwrap(Unwrap(proof).partial_tree_proof)
           hs == pt[2].proof
       IN  /\ i \in 1..(Len(hs) + 1)
           /\ proof' = Some([Unwrap(proof) EXCEPT !.partial_tree_proof =
                               Some(<<pt[1], [pt[2] EXCEPT !.proof =
                                   SubSeq(hs, 1, i - 1) \o <<v>> \o SubSeq(hs, i, Len(hs))]>>)])
    /\ tamper' = "extra_sibling"
    /\ outcome' = [op |-> "tamper", status |-> "ok"]
    /\ UNCHANGED <<entries, trees>>
    /\ UNCHANGED treeVars
    /\ UNCHANGED skipVars
    /\ UNCHANGED asked
    /\ UNCHANGED called

\* The slot index of the partial tree replaced by idx.
TamperPartialIndex(idx) ==
    /\ IsSome(proof)
    /\ tamper = "none"
    /\ IsSome(Unwrap(proof).partial_tree_proof)
    /\ LET pt == Unwrap(Unwrap(proof).partial_tree_proof)
       IN  /\ idx # pt[1]
           /\ proof' = Some([Unwrap(proof) EXCEPT !.partial_tree_proof =
                               Some(<<idx, pt[2]>>)])
    /\ tamper' = "partial_index"
    /\ outcome' = [op |-> "tamper", status |-> "ok"]
    /\ UNCHANGED <<entries, trees>>
    /\ UNCHANGED treeVars
    /\ UNCHANGED skipVars
    /\ UNCHANGED asked
    /\ UNCHANGED called

\* num_suffix_elements of the partial tree's SuffixProof replaced by m.
TamperCount(m) ==
    /\ IsSome(proof)
    /\ tamper = "none"
    /\ IsSome(Unwrap(proof).partial_tree_proof)
    /\ LET pt == Unwrap(Unwrap(proof).partial_tree_proof)
       IN  /\ m # pt[2].num_suffix_elements
           /\ proof' = Some([Unwrap(proof) EXCEPT !.partial_tree_proof =
                               Some(<<pt[1], [pt[2] EXCEPT !.num_suffix_elements = m]>>)])
    /\ tamper' = "count"
    /\ outcome' = [op |-> "tamper", status |-> "ok"]
    /\ UNCHANGED <<entries, trees>>
    /\ UNCHANGED treeVars
    /\ UNCHANGED skipVars
    /\ UNCHANGED asked
    /\ UNCHANGED called

Next ==
    \/ \E entry \in EntryValues : AddEntry(entry)
    \/ \E n \in 0..(Len(entries) + 1) : ProveMostRecent(n)
    \/ VerifyMostRecent
    \/ \E i \in 1..MaxEntries : \E v \in TamperValues : TamperEntry(i, v)
    \/ \E i \in 1..MaxEntries : \E v \in TamperValues : TamperSibling(i, v)
    \/ \E i \in 1..MaxEntries : \E idx \in 0..(Len(trees) + 1) : TamperIndex(i, idx)
    \/ PopEntry
    \/ ClearEntries
    \/ \E i \in 1..MaxEntries : DropSibling(i)
    \/ \E i \in 1..MaxEntries : \E v \in TamperValues : ExtraSibling(i, v)
    \/ \E idx \in 0..(Len(trees) + 1) : TamperPartialIndex(idx)
    \/ \E m \in 0..(Len(entries) + 1) : TamperCount(m)

Spec == Init /\ [][Next]_vars

\* --------------------------------------------- PerfectMerkleTree driver
\* The leaf values of a tree, left to right.
RECURSIVE Leaves(_)
Leaves(node) ==
    IF node.node_type = "Leaf" THEN <<Unwrap(node.value)>>
    ELSE IF node.node_type = "Internal"
    THEN Leaves(Unwrap(node.left)) \o Leaves(Unwrap(node.right))
    ELSE <<>>

\* The last n elements of a sequence.
LastN(seq, n) == SubSeq(seq, Len(seq) - n + 1, Len(seq))

DataBlocks == UNION {[1..k -> EntryValues] : k \in 0..MaxLeaves}

\* let tree = PerfectMerkleTree::new(data_blocks)
NewTree(data_blocks) ==
    /\ tree = None
    /\ LET t == PerfectMerkleTreeNew(data_blocks)
       IN  IF IsPanic(t.root)
           THEN /\ tree' = None
                /\ outcome' = [op |-> "PerfectMerkleTree::new",
                               status |-> PanicMessage(t.root)]
           ELSE /\ tree' = Some(t)
                /\ outcome' = [op |-> "PerfectMerkleTree::new", status |-> "ok"]
    /\ UNCHANGED <<sproof, suffix>>
    /\ UNCHANGED mmrVars
    /\ UNCHANGED skipVars
    /\ asked' = Len(data_blocks)
    /\ UNCHANGED called

\* let proof = tree.prove_most_recent_n_elements(n), and the caller sets
\* aside the last n leaf values to pass with it.
TreeProve(n) ==
    /\ IsSome(tree)
    /\ sproof = None
    /\ LET r == tree_prove_most_recent_n_elements(Unwrap(tree), n)
       IN  /\ sproof' = r.proof
           /\ suffix' = IF r.status = "ok" THEN LastN(Leaves(Unwrap(tree).root), n) ELSE <<>>
           /\ outcome' = [op |-> "tree.prove_most_recent_n_elements", status |-> r.status]
    /\ UNCHANGED tree
    /\ UNCHANGED mmrVars
    /\ UNCHANGED skipVars
    /\ asked' = n
    /\ UNCHANGED called

\* The caller passes a wrong suffix: element i replaced by v.
WrongSuffix(i, v) ==
    /\ IsSome(sproof)
    /\ outcome.op = "tree.prove_most_recent_n_elements"
    /\ i \in 1..Len(suffix)
    /\ v # suffix[i]
    /\ suffix' = [suffix EXCEPT ![i] = v]
    /\ outcome' = [op |-> "wrong_suffix", status |-> "ok"]
    /\ UNCHANGED <<tree, sproof>>
    /\ UNCHANGED mmrVars
    /\ UNCHANGED skipVars
    /\ UNCHANGED asked
    /\ UNCHANGED called

\* tree.verify_suffix_proof(&suffix, &proof)
TreeVerify ==
    /\ IsSome(tree)
    /\ IsSome(sproof)
    /\ outcome.op # "verify_suffix_proof"
    /\ \E status \in BuildOutcomes(verify_suffix_proof(Unwrap(tree), suffix, Unwrap(sproof))) :
          outcome' = [op |-> "verify_suffix_proof", status |-> status]
    /\ UNCHANGED treeVars
    /\ UNCHANGED mmrVars
    /\ UNCHANGED skipVars
    /\ UNCHANGED asked
    /\ UNCHANGED called

NextTree ==
    \/ \E data_blocks \in DataBlocks : NewTree(data_blocks)
    \/ \E n \in 0..(MaxLeaves + 1) : TreeProve(n)
    \/ \E i \in 1..MaxLeaves : \E v \in EntryValues \cup {<<9>>} : WrongSuffix(i, v)
    \/ TreeVerify

SpecTree == Init /\ [][NextTree]_vars

\* ------------------------------------------------------ SkipList driver
\* skip_list.add(value), on a list shorter than limit.
SkipAdd(value, limit) ==
    /\ Len(nodes) < limit
    /\ IF Len(nodes) = 0
       THEN /\ nodes' = <<first(value)>>
            /\ sha' = sha
            /\ outcome' = [op |-> "add", status |-> "ok"]
       ELSE LET last == nodes[Len(nodes)]
                r == next(sha, last, value)
            IN  IF r.status = "ok"
                THEN /\ nodes' = Append(nodes, r.node)
                     /\ sha' = Hashed(sha, HasherInput(last))
                     /\ outcome' = [op |-> "add", status |-> "ok"]
                ELSE /\ nodes' = nodes
                     /\ sha' = sha
                     /\ outcome' = [op |-> "add", status |-> r.status]
    /\ path' = <<>>
    /\ UNCHANGED mmrVars
    /\ UNCHANGED treeVars
    /\ asked' = 0
    /\ UNCHANGED called

\* let proof = skip_list.get_inclusion_proof(h)
GetInclusionProof(h) ==
    /\ outcome.op # "get_inclusion_proof"
    /\ LET r == get_inclusion_proof(nodes, h)
       IN  /\ path' = r.path
           /\ outcome' = [op |-> "get_inclusion_proof", status |-> r.status]
    /\ UNCHANGED <<nodes, sha>>
    /\ UNCHANGED mmrVars
    /\ UNCHANGED treeVars
    /\ asked' = h
    /\ UNCHANGED called

\* test_skip_list_add: for i in 0..num_elements { skip_list.add(i) }, and
\* an inclusion proof for any height of the list built so far.
NextSkip ==
    \/ SkipAdd(Len(nodes), MaxNodes)
    \/ \E h \in 0..(Len(nodes) + 1) : GetInclusionProof(h)

SpecSkip == Init /\ [][NextSkip]_vars

\* The height proved in test_skip_list_inclusion.
InclusionTarget == 345

\* test_skip_list_inclusion: for i in 1.. { skip_list.add(i) }, then
\* skip_list.get_inclusion_proof(345).
NextInclusion ==
    \/ SkipAdd(Len(nodes) + 1, InclusionNodes)
    \/ GetInclusionProof(InclusionTarget)

SpecInclusion == Init /\ [][NextInclusion]_vars

\* ------------------------------------------------------------ MMR shape
\* node is the root of a perfect tree of height h.
RECURSIVE IsPerfect(_, _)
IsPerfect(node, h) ==
    /\ node.height = h
    /\ IF h = 0
       THEN node.node_type = "Leaf" /\ node.left = None /\ node.right = None
       ELSE /\ node.node_type = "Internal"
            /\ IsSome(node.left) /\ IsSome(node.right)
            /\ IsPerfect(Unwrap(node.left), h - 1)
            /\ IsPerfect(Unwrap(node.right), h - 1)

\* Bit i of n.
Bit(n, i) == (n \div (2 ^ i)) % 2

E == Len(entries)

\* C1: after E add_entry calls on an empty MMR, slot i is occupied iff bit
\* i of E is 1 (every bit of E has a slot), and an occupied slot i holds a
\* perfect tree of height i with exactly 2^i leaves.
C1_SlotsAreBitsOfE ==
    /\ E < 2 ^ Len(trees)
    /\ \A k \in 1..Len(trees) :
          /\ IsSome(trees[k]) <=> (Bit(E, k - 1) = 1)
          /\ IsSome(trees[k]) =>
                /\ IsPerfect(Unwrap(trees[k]).root, k - 1)
                /\ Len(Leaves(Unwrap(trees[k]).root)) = 2 ^ (k - 1)
                /\ num_leaves(Unwrap(trees[k])) = 2 ^ (k - 1)

\* A carry over two slots has happened: E = 4 leaves one tree in slot 2.
C1_Witness ==
    /\ E = 4
    /\ outcome.op = "add_entry"
    /\ IsSome(trees[3]) /\ ~IsSome(trees[1]) /\ ~IsSome(trees[2])

\* floor(log2(n)) for n >= 1.
RECURSIVE FloorLog2(_)
FloorLog2(n) == IF n <= 1 THEN 0 ELSE 1 + FloorLog2(n \div 2)

RECURSIVE OccupiedDown(_)
OccupiedDown(k) ==
    IF k = 0 THEN <<>>
    ELSE (IF IsSome(trees[k]) THEN <<k>> ELSE <<>>) \o OccupiedDown(k - 1)

\* The leaves of the slots listed in ks, concatenated.
RECURSIVE LeavesOfSlots(_)
LeavesOfSlots(ks) ==
    IF Len(ks) = 0 THEN <<>>
    ELSE Leaves(Unwrap(trees[ks[1]]).root) \o LeavesOfSlots(Tail(ks))

\* Number of entries held by occupied slots above slot k.
RECURSIVE OlderThan(_, _)
OlderThan(k, j) ==
    IF j > Len(trees) THEN 0
    ELSE (IF j > k /\ IsSome(trees[j]) THEN 2 ^ (j - 1) ELSE 0) + OlderThan(k, j + 1)

\* The contiguous window of entries that slot k covers.
Window(k) == SubSeq(entries, OlderThan(k, 1) + 1, OlderThan(k, 1) + 2 ^ (k - 1))

\* C3: reading the occupied slots from the largest index down and each
\* tree's leaves left to right yields entries[0..E) in append order, and each
\* occupied slot has the root digest of a PerfectMerkleTree built in one call
\* from its window of 2^i entries.
C3_IncrementalEqualsBulk ==
    /\ LeavesOfSlots(OccupiedDown(Len(trees))) = entries
    /\ \A k \in 1..Len(trees) :
          IsSome(trees[k]) =>
              /\ Leaves(Unwrap(trees[k]).root) = Window(k)
              /\ digest(Unwrap(trees[k])) = digest(PerfectMerkleTreeNew(Window(k)))

\* Six entries with different neighbours, in slots 2 and 1.
C3_Witness ==
    /\ E = 6
    /\ outcome.op = "add_entry"
    /\ entries = <<<<1>>, <<2>>, <<2>>, <<1>>, <<1>>, <<2>>>>
    /\ IsSome(trees[3]) /\ IsSome(trees[2])

\* The tree held in SpecTree and its leaves.
TheTree == Unwrap(tree)
TreeLeaves == Leaves(TheTree.root)

\* C4: for every perfect tree of L = 2^k leaves and every n in 1..L,
\* prove_most_recent_n_elements(n) returns a proof, and verify_suffix_proof
\* applied to the last n leaf values and that proof accepts.
C4_TreeProofRoundTrip ==
    /\ IsSome(tree) =>
          \A n \in 1..num_leaves(TheTree) :
              tree_prove_most_recent_n_elements(TheTree, n).status = "ok"
    /\ (/\ outcome.op = "verify_suffix_proof"
        /\ suffix = LastN(TreeLeaves, Len(suffix)))
       => outcome.status = "ok"

\* A proof for the last 3 of 8 leaves (two sibling hashes) was accepted.
C4_Witness ==
    /\ IsSome(tree) /\ IsSome(sproof)
    /\ num_leaves(TheTree) = 8
    /\ Unwrap(sproof).num_suffix_elements = 3
    /\ Len(Unwrap(sproof).proof) = 2
    /\ outcome = [op |-> "verify_suffix_proof", status |-> "ok"]

\* The proof the caller holds.
TheProof == Unwrap(proof)

Verified == outcome.op = "verify_most_recent_n_elements"

\* C5: for every MMR reached by E >= 1 appends and every n in 1..E,
\* prove_most_recent_n_elements(n) returns a proof and
\* verify_most_recent_n_elements accepts it on the same MMR, also when a
\* partial tree proof is present.
C5_MmrProofRoundTrip ==
    /\ \A n \in 1..E :
          mmr_prove_most_recent_n_elements(entries, trees, n).status = "ok"
    /\ (Verified /\ tamper = "none" /\ Len(TheProof.entries) >= 1)
       => outcome.status = "ok"

\* The last 5 of 7 entries, slots 0 and 1 in full and 2 elements of slot 2,
\* were proved and accepted.
C5_Witness ==
    /\ E = 7
    /\ Verified /\ tamper = "none" /\ outcome.status = "ok"
    /\ Len(TheProof.entries) = 5
    /\ TheProof.full_tree_indices = <<0, 1>>
    /\ IsSome(TheProof.partial_tree_proof)
    /\ Unwrap(TheProof.partial_tree_proof)[1] = 2
    /\ Unwrap(TheProof.partial_tree_proof)[2].num_suffix_elements = 2
    /\ Len(Unwrap(TheProof.partial_tree_proof)[2].proof) = 1

\* C6: an honestly generated proof for 1 <= n <= E in which one entry, or
\* one sibling hash of the partial tree's proof list, was replaced by a
\* different value is rejected by verify_most_recent_n_elements.
C6_TamperedValueRejected ==
    (Verified /\ tamper \in {"entry", "sibling"}) => outcome.status # "ok"

\* A replaced sibling hash got as far as the root comparison and failed it.
C6_Witness ==
    /\ Verified /\ tamper = "sibling"
    /\ outcome.status = "Computed root doesn't match expected root"

\* C7: an honestly generated proof for 1 <= n <= E in which one value of
\* full_tree_indices was changed to a different index (in range or not,
\* occupied or empty slot) is rejected by verify_most_recent_n_elements.
C7_TamperedIndexRejected ==
    (Verified /\ tamper = "index") => outcome.status # "ok"

\* An index changed to another occupied slot whose tree matched the
\* entries it was given, so that only the final count rejected the proof.
C7_Witness ==
    /\ Verified /\ tamper = "index"
    /\ outcome.status = "Not all entries were accounted for"

\* The elements of a sequence as a set.
Range(seq) == {seq[j] : j \in 1..Len(seq)}

\* d is the digest of node: the oracle gave d to what the node hashes.
IsDigestOf(d, node) == d \in 1..Len(sha) /\ sha[d] = HasherInput(node)

\* C8: after any sequence of SkipList::add calls the node at 0-based
\* position p has height p + 1, the keys of its fingers are the set returned
\* by calculate_finger_indices(height, 10) (empty for the first node), and
\* for every finger key k the stored digest is the digest of the node at
\* position k - 1.
C8_NodeHeightsAndFingers ==
    \A p \in 1..Len(nodes) :
        /\ nodes[p].height = p
        /\ DOMAIN nodes[p].fingers =
              Range(calculate_finger_indices(nodes[p].height, DEFAULT_BASE))
        /\ (p = 1 => DOMAIN nodes[p].fingers = {})
        /\ \A k \in DOMAIN nodes[p].fingers :
              /\ k \in 1..Len(nodes)
              /\ IsDigestOf(nodes[p].fingers[k], nodes[k])

\* The node of height 112 was added with its three fingers 111, 110, 100.
C8_Witness ==
    /\ Len(nodes) = 112
    /\ outcome = [op |-> "add", status |-> "ok"]
    /\ DOMAIN nodes[112].fingers = {111, 110, 100}

\* C9: in any sequence of SkipList::add calls next_fingers never reaches
\* the "Unexpected idx" branch: every index of
\* calculate_finger_indices(prev.height + 1, 10) is a key of prev.fingers
\* or equal to prev.height.
C9_NoUnexpectedIdx ==
    /\ outcome.op = "add" => outcome.status = "ok"
    /\ \A p \in 1..Len(nodes) :
          \A idx \in Range(calculate_finger_indices(nodes[p].height + 1, DEFAULT_BASE)) :
              idx \in DOMAIN nodes[p].fingers \/ idx = nodes[p].height

\* The add after height 111: fingers 110 and 100 were copied from the
\* previous node and 111 was its digest.
C9_Witness ==
    /\ Len(nodes) = 112
    /\ outcome = [op |-> "add", status |-> "ok"]
    /\ {110, 100} \subseteq DOMAIN nodes[111].fingers
    /\ 111 \notin DOMAIN nodes[111].fingers
    /\ 111 \in DOMAIN nodes[112].fingers

\* Number of values added in the inclusion scenario.
ThousandValues == 1000

\* get_inclusion_proof(345) has returned on the list of 1000 values.
InclusionProved ==
    /\ Len(nodes) = ThousandValues
    /\ outcome = [op |-> "get_inclusion_proof", status |-> "ok"]

\* C10 as stated: after adding 1000 values, get_inclusion_proof(345) returns
\* a path of length at most ceil(log10(1000)) + 1 = 4 whose first element
\* has height 1000.
C10_PathAtMostFour ==
    InclusionProved => (Len(path) <= 4 /\ path[1].height = ThousandValues)

\* The heights of the nodes of a path.
Heights(walked) == [j \in 1..Len(walked) |-> walked[j].height]

\* C10 amended: after adding 1000 values, get_inclusion_proof(345) returns
\* a path of 16 nodes, of heights 1000, 900, 800, 700, 600, 500, 400, 390,
\* 380, 370, 360, 350, 349, 348, 347, 346; its first element has height 1000.
C10_PathOfSixteen ==
    InclusionProved =>
        /\ Len(path) = 16
        /\ path[1].height = ThousandValues
        /\ Heights(path) = <<1000, 900, 800, 700, 600, 500, 400, 390,
                             380, 370, 360, 350, 349, 348, 347, 346>>

\* The proof for height 345 was taken on the list of 1000 values.
C10_Witness ==
    /\ InclusionProved
    /\ Len(path) > 0
    /\ path[Len(path)].height = InclusionTarget + 1

\* ------------------------------------------------ inclusion proof chain
\* walked is a finger chain of the list from its head down to height t.
IsFingerChain(walked, t) ==
    /\ Len(walked) >= 1
    /\ walked[1] = nodes[Len(nodes)]
    /\ \A j \in 1..(Len(walked) - 1) : walked[j].height > walked[j + 1].height
    /\ \A j \in 1..Len(walked) :
          LET k == IF j < Len(walked) THEN walked[j + 1].height ELSE t
          IN  /\ walked[j] = nodes[walked[j].height]
              /\ k \in DOMAIN walked[j].fingers
              /\ IsDigestOf(walked[j].fingers[k], nodes[k])
    /\ \A j \in 1..Len(walked) : walked[j] # nodes[t]

\* C11: for every 1 <= t <= |nodes| the path returned by
\* get_inclusion_proof(t) is empty when t = |nodes| and otherwise starts at
\* the head node, has strictly decreasing heights, links each element to the
\* next (the last one to height t) by a finger that holds that node's digest,
\* and does not contain the target node.
C11_PathIsFingerChain ==
    (outcome.op = "get_inclusion_proof" /\ asked \in 1..Len(nodes)) =>
        /\ outcome.status = "ok"
        /\ IF asked = Len(nodes) THEN path = <<>> ELSE IsFingerChain(path, asked)

\* get_inclusion_proof(45) on 112 nodes walked eleven nodes.
C11_Witness ==
    /\ outcome.op = "get_inclusion_proof"
    /\ Len(nodes) = MaxNodes
    /\ asked = 45
    /\ Heights(path) = <<112, 100, 90, 80, 70, 60, 50, 49, 48, 47, 46>>

\* ------------------------------------- calculate_finger_indices driver
\* Heights past the bound at which a power of the base is crossed, among
\* them those of test_calculate_finger_indices.
BoundaryHeights ==
    {9999, 10000, 10001, 65535, 65536, 65537, 99999, 100000, 100001,
     524287, 524288, 524289, 999999, 1000000}

\* let fingers = calculate_finger_indices(height, base), once per run: the
\* function keeps no state between calls.
CalcFingers(height, base) ==
    /\ called = None
    /\ called' = Some([height |-> height, base |-> base,
                       fingers |-> calculate_finger_indices(height, base)])
    /\ outcome' = [op |-> "calculate_finger_indices", status |-> "ok"]
    /\ UNCHANGED asked
    /\ UNCHANGED mmrVars
    /\ UNCHANGED treeVars
    /\ UNCHANGED skipVars

NextFingers ==
    \E height \in (1..MaxHeight) \cup BoundaryHeights :
        \E base \in 2..MaxBase : CalcFingers(height, base)

SpecFingers == Init /\ [][NextFingers]_vars

\* ------------------------------------------------------ finger indices
\* The powers p, p * b, p * b * b, ... that do not exceed x.
RECURSIVE PowersUpTo(_, _, _)
PowersUpTo(x, b, p) == IF p > x THEN {} ELSE {p} \cup PowersUpTo(x, b, p * b)

\* h - 1 rounded down to a multiple of each power of b that is <= h - 1.
Truncations(h, b) == {((h - 1) \div p) * p : p \in PowersUpTo(h - 1, b, 1)}

\* C12: for every h >= 1 and b >= 2, every element of
\* calculate_finger_indices(h, b) lies in [0, h-1], the list is strictly
\* decreasing, and its elements are exactly floor((h-1)/b^j) * b^j for
\* j = 0, 1, ... while b^j <= h-1.
C12_FingerIndices ==
    IsSome(called) =>
        LET c == Unwrap(called)
            f == c.fingers
        IN  /\ \A j \in 1..Len(f) : f[j] \in 0..(c.height - 1)
            /\ \A j \in 1..(Len(f) - 1) : f[j] > f[j + 1]
            /\ Range(f) = Truncations(c.height, c.base)

\* calculate_finger_indices(1001, 10): four truncations of 1000 coincide.
C12_Witness ==
    called = Some([height |-> 1001, base |-> 10, fingers |-> <<1000>>])

\* C13: for every h <= 10^6, calculate_finger_indices(h, 10) has at most 7
\* elements and calculate_finger_indices(h, 2) at most ceil(log2(h)).
C13_FingerCount ==
    IsSome(called) =>
        LET c == Unwrap(called)
        IN  /\ (c.base = 10 /\ c.height <= 10 ^ 6) => Len(c.fingers) <= 7
            /\ c.base = 2 => Len(c.fingers) <= CeilLog2From(c.height, 0)

\* The longest lists below 10^6: six elements in base 10, nineteen in base 2.
C13_Witness ==
    \/ called = Some([height |-> 1000000, base |-> 10, fingers |->
                      <<999999, 999990, 999900, 999000, 990000, 900000>>])
    \/ /\ IsSome(called)
       /\ Unwrap(called).height = 524288
       /\ Unwrap(called).base = 2
       /\ Len(Unwrap(called).fingers) = 19

\* ------------------------------------------------- how a verifier fails
\* The messages of the assert!, panic! and expect calls that end
\* verify_most_recent_n_elements and the verify_suffix_proof it calls.
VerifyPanics ==
    {"Proof entries cannot be empty", "Tree index out of bounds",
     "Tree at index doesn't exist", "Partial tree entries out of bounds",
     "Tree entries out of bounds", "Not a perfect binary tree!",
     "Reconstructed tree digest doesn't match expected",
     "Not all entries were accounted for",
     "assertion failed: suffix_elements.len() == proof.num_suffix_elements",
     "attempt to subtract with overflow", "Not enough proof elements",
     "index out of bounds", "Not all proof elements were used",
     "Should have exactly one root hash",
     "Computed root doesn't match expected root"}

\* Both verifiers return (): a call that returns has accepted, and no call
\* hands an error value back to its caller.
ReturnedErrors == {"ProofInvalid"}

\* The caller altered the proof after prove_most_recent_n_elements made it.
Malformed == tamper # "none"

IsPowerOfTwo(n) == \E k \in 0..n : n = 2 ^ k

\* C15: PerfectMerkleTree::new fails for every input of length 0 or of a
\* length that is not a power of two, and succeeds for every length that is
\* a power of two >= 1, producing a tree with exactly that many leaves.
C15_NewShape ==
    outcome.op = "PerfectMerkleTree::new" =>
        IF IsPowerOfTwo(asked)
        THEN /\ outcome.status = "ok"
             /\ IsSome(tree)
             /\ num_leaves(TheTree) = asked
             /\ Len(TreeLeaves) = asked
             /\ IsPerfect(TheTree.root, tree_height(TheTree))
        ELSE /\ outcome.status \in {"Not a perfect binary tree!",
                                    "called Option::unwrap() on a None value"}
             /\ tree = None

\* new on six blocks passed the first level and panicked on the odd second.
C15_Witness ==
    /\ outcome = [op |-> "PerfectMerkleTree::new", status |-> "Not a perfect binary tree!"]
    /\ asked = 6
    /\ tree = None

\* ------------------------------------------------------------ empty proofs
\* C16: verify_most_recent_n_elements rejects every proof whose entries
\* list is empty, whatever its full_tree_indices and partial_tree_proof; in
\* particular the proof returned by prove_most_recent_n_elements(0) is never
\* accepted.
C16_EmptyProofRejected ==
    /\ (Verified /\ Len(TheProof.entries) = 0) =>
          outcome.status = "Proof entries cannot be empty"
    /\ (outcome.op = "prove_most_recent_n_elements" /\ asked = 0) =>
          /\ proof = Some([entries |-> <<>>, full_tree_indices |-> <<>>,
                           partial_tree_proof |-> None])
          /\ verify_most_recent_n_elements(trees, TheProof) # "ok"

\* The proof of prove_most_recent_n_elements(0) on five entries was verified.
C16_Witness ==
    /\ Verified
    /\ E = 5
    /\ asked = 0
    /\ tamper = "none"
    /\ TheProof.entries = <<>>
    /\ outcome.status = "Proof entries cannot be empty"

\* ----------------------------------------------------- shape of a proof
\* The 0-based indices of the occupied slots from slot k on, ascending.
RECURSIVE OccupiedUp(_)
OccupiedUp(k) ==
    IF k > Len(trees) THEN <<>>
    ELSE (IF IsSome(trees[k]) THEN <<k - 1>> ELSE <<>>) \o OccupiedUp(k + 1)

\* The sum of 2^i over the slot indices i listed in slots.
RECURSIVE LeavesIn(_)
LeavesIn(slots) ==
    IF Len(slots) = 0 THEN 0 ELSE 2 ^ slots[1] + LeavesIn(Tail(slots))

MmrOps == {"add_entry", "prove_most_recent_n_elements",
           "verify_most_recent_n_elements", "tamper"}
TreeOps == {"PerfectMerkleTree::new", "tree.prove_most_recent_n_elements",
            "wrong_suffix", "verify_suffix_proof"}
SkipOps == {"add", "get_inclusion_proof"}

\* A run works on one structure, as each test of the repository does: on
\* an MMR, on a PerfectMerkleTree or on a SkipList.
NextAll ==
    \/ outcome.op \in {"new"} \cup MmrOps /\ Next
    \/ outcome.op \in {"new"} \cup TreeOps /\ NextTree
    \/ outcome.op \in {"new"} \cup SkipOps /\ NextSkip

SpecAll == Init /\ [][NextAll]_vars

\* C18: a proof request outside the valid range fails and returns no proof:
\* prove_most_recent_n_elements(n) on a tree with n > leaves, on an MMR with
\* n > E, and get_inclusion_proof(h) with h > |nodes| or h = 0.
C18_OutOfRangeFails ==
    /\ (outcome.op = "tree.prove_most_recent_n_elements" /\ asked > num_leaves(TheTree)) =>
          /\ outcome.status = "assertion failed: num_suffix_elements <= self.num_leaves()"
          /\ sproof = None
    /\ (outcome.op = "prove_most_recent_n_elements" /\ asked > E) =>
          /\ outcome.status = "assertion failed: num_suffix_elements <= self.entries.len()"
          /\ proof = None
    /\ (outcome.op = "get_inclusion_proof" /\ asked > Len(nodes)) =>
          /\ outcome.status = "assertion failed: h <= self.nodes.len()"
          /\ path = <<>>
    /\ (outcome.op = "get_inclusion_proof" /\ asked = 0) =>
          /\ outcome.status \in {"One node must exist", "At least one finger must be found"}
          /\ path = <<>>

\* prove_most_recent_n_elements(5) on a tree of four leaves failed.
C18_Witness ==
    /\ outcome = [op |-> "tree.prove_most_recent_n_elements",
                  status |-> "assertion failed: num_suffix_elements <= self.num_leaves()"]
    /\ num_leaves(TheTree) = 4
    /\ asked = 5
    /\ sproof = None

\* ------------------------------------------------------- children heights
\* Every internal node below node has two children, both of height one less
\* than its own.
RECURSIVE ChildrenOneLess(_)
ChildrenOneLess(node) ==
    node.node_type = "Internal" =>
        /\ IsSome(node.left) /\ IsSome(node.right)
        /\ Unwrap(node.left).height = node.height - 1
        /\ Unwrap(node.right).height = node.height - 1
        /\ ChildrenOneLess(Unwrap(node.left))
        /\ ChildrenOneLess(Unwrap(node.right))

\* node is what the carry-merges of add_entry(entry) built from the trees
\* that stood in slots 1..j: the old tree of slot j on the left, the carried
\* node on the right, down to the new leaf.
RECURSIVE CarryMerged(_, _, _)
CarryMerged(node, j, entry) ==
    IF j = 0 THEN node = new_leaf(entry)
    ELSE /\ node.node_type = "Internal"
         /\ node.left = Some(Unwrap(trees[j]).root)
         /\ CarryMerged(Unwrap(node.right), j - 1, entry)

\* The first free slot of trees: where add_entry installs its tree.
FirstFree == CHOOSE k \in 1..Len(trees) :
                 trees[k] = None /\ \A j \in 1..(k - 1) : IsSome(trees[j])

\* C19: in every tree reachable by PerfectMerkleTree::new or by the
\* carry-merges of add_entry, each internal node has two children of equal
\* height, one less than its own, so the assertion in from_children never
\* fails; and in a carry-merge the old slot tree is always the left child
\* and the new node the right child.
C19_EqualHeightMerges ==
    /\ outcome.status # "assertion failed: left.height == right.height"
    /\ \A k \in 1..Len(trees) :
          IsSome(trees[k]) => ChildrenOneLess(Unwrap(trees[k]).root)
    /\ IsSome(tree) => ChildrenOneLess(TheTree.root)
    /\ \A entry \in EntryValues :
          LET after == add_entry_trees(trees, entry)
          IN  /\ IsSome(after[FirstFree])
              /\ CarryMerged(Unwrap(after[FirstFree]).root, FirstFree - 1, entry)

\* The fourth add_entry merged twice and installed a tree of height 2.
C19_Witness ==
    /\ outcome = [op |-> "add_entry", status |-> "ok"]
    /\ E = 4
    /\ IsSome(trees[3])
    /\ tree_height(Unwrap(trees[3])) = 2
    /\ trees[1] = None /\ trees[2] = None

\* ------------------------------------------------------ the walk ends
\* C20: for every skip list built by add and every 1 <= t <= |nodes|,
\* get_inclusion_proof(t) terminates without panicking: at every hop the
\* current node has at least one finger k >= t, each hop strictly decreases
\* the current height, and the walk stops exactly at height t.
C20_WalkEndsAtTarget ==
    (outcome.op = "get_inclusion_proof" /\ asked \in 1..Len(nodes)) =>
        /\ outcome.status = "ok"
        /\ get_inclusion_proof(nodes, asked) = [status |-> "ok", path |-> path]
        /\ \A j \in 1..Len(path) :
              LET hop == closest_finger(path[j], asked)
              IN  /\ IsSome(hop)
                  /\ Unwrap(hop) >= asked
                  /\ Unwrap(hop) < path[j].height
                  /\ Unwrap(hop) = IF j < Len(path) THEN path[j + 1].height ELSE asked
        /\ Len(path) <= Len(nodes) - asked
        /\ (path = <<>>) <=> (asked = Len(nodes))

\* get_inclusion_proof(1) on 112 nodes walked nineteen nodes down to height 2.
C20_Witness ==
    /\ outcome = [op |-> "get_inclusion_proof", status |-> "ok"]
    /\ Len(nodes) = MaxNodes
    /\ asked = 1
    /\ Heights(path) = <<112, 100, 90, 80, 70, 60, 50, 40, 30, 20, 10,
                         9, 8, 7, 6, 5, 4, 3, 2>>

\* ------------------------------------------------------------ append-only
\* C21: both structures are append-only.  The prove and verify operations
\* and get_inclusion_proof leave the MMR, the tree and the skip list
\* unchanged; add_entry leaves entries[0..E) unchanged and appends exactly
\* one entry at the end; SkipList::add leaves every existing node (value,
\* height, fingers) and every digest already computed unchanged and pushes
\* exactly one node.
C21_AppendOnly ==
    [][/\ outcome'.op \in {"prove_most_recent_n_elements",
                           "verify_most_recent_n_elements"} =>
             (entries' = entries /\ trees' = trees)
       /\ outcome'.op \in {"tree.prove_most_recent_n_elements",
                           "verify_suffix_proof"} =>
             tree' = tree
       /\ outcome'.op = "get_inclusion_proof" =>
             (nodes' = nodes /\ sha' = sha)
       /\ outcome'.op = "add_entry" =>
             /\ Len(entries') = Len(entries) + 1
             /\ SubSeq(entries', 1, Len(entries)) = entries
       /\ outcome'.op = "add" =>
             /\ outcome'.status = "ok"
             /\ Len(nodes') = Len(nodes) + 1
             /\ SubSeq(nodes', 1, Len(nodes)) = nodes
             /\ Len(sha') >= Len(sha)
             /\ SubSeq(sha', 1, Len(sha)) = sha
             /\ \A k \in 2..Len(nodes) :
                   \A f \in DOMAIN nodes[k].fingers :
                       IsDigestOf(nodes[k].fingers[f], nodes[f])'
      ]_vars

\* The seventh add_entry kept the six entries before it; the proof of the
\* last three entries was then taken and verified on the MMR it left alone.
C21_Witness ==
    /\ Verified
    /\ outcome.status = "ok"
    /\ E = MaxEntries
    /\ asked = 3
    /\ entries = <<<<1>>, <<2>>, <<1>>, <<2>>, <<1>>, <<2>>, <<2>>>>

\* ------------------------------------------------ proofs made by the caller
\* The sequences over S of length lo..hi.
SeqsOf(S, lo, hi) == UNION {[1..k -> S] : k \in lo..hi}

\* The Option<(usize, SuffixProof)> values a caller can write from what the
\* MMR hands out: none, or a slot index with the suffix proof of any number
\* of leaves of that slot's tree.
ForgedPartials ==
    {None} \cup
    {Some(<<k - 1, Unwrap(tree_prove_most_recent_n_elements(Unwrap(trees[k]), m).proof)>>) :
        <<k, m>> \in {km \in (1..Len(trees)) \X (1..MaxForgeEntries) :
                         /\ IsSome(trees[km[1]])
                         /\ km[2] <= num_leaves(Unwrap(trees[km[1]]))}}

\* let proof = MostRecentNElementsProof { entries, full_tree_indices,
\* partial_tree_proof }: the fields are pub, so a caller writes any value.
ForgeProof(es, indices, partial) ==
    /\ proof = None
    /\ Len(entries) \in 1..MaxForgeEntries
    /\ es \in SeqsOf(EntryValues, 1, MaxForgeEntries)
    /\ indices \in SeqsOf(0..(Len(trees) - 1), 0, MaxForgeIndices)
    /\ partial \in ForgedPartials
    /\ proof' = Some([entries |-> es, full_tree_indices |-> indices,
                      partial_tree_proof |-> partial])
    /\ tamper' = "forged"
    /\ outcome' = [op |-> "forge", status |-> "ok"]
    /\ asked' = Len(es)
    /\ UNCHANGED <<entries, trees>>
    /\ UNCHANGED treeVars
    /\ UNCHANGED skipVars
    /\ UNCHANGED called

NextForge ==
    \/ \E entry \in EntryValues : AddEntry(entry)
    \/ /\ proof = None
       /\ \E es \in SeqsOf(EntryValues, 1, MaxForgeEntries) :
            \E indices \in SeqsOf(0..(Len(trees) - 1), 0, MaxForgeIndices) :
              \E partial \in ForgedPartials : ForgeProof(es, indices, partial)
    \/ VerifyMostRecent

SpecForge == Init /\ [][NextForge]_vars

\* C22: soundness of the MMR verifier.  For any MMR with E entries and any
\* proof value whatsoever, if verify_most_recent_n_elements accepts it then
\* proof.entries is entries[E-len..E), the most recent len = |proof.entries|
\* entries of the MMR.
C22_VerifierSound ==
    (Verified /\ outcome.status = "ok") =>
        /\ Len(TheProof.entries) <= E
        /\ TheProof.entries = LastN(entries, Len(TheProof.entries))

\* ------------------------------------------------- size of a suffix proof
\* The number of 1 bits of x.
RECURSIVE Popcount(_)
Popcount(x) == IF x = 0 THEN 0 ELSE (x % 2) + Popcount(x \div 2)

\* The hashes of the left siblings met on the way from node, whose leaves
\* start at index start, down to leaf index, top first.
RECURSIVE LeftSiblingsTo(_, _, _)
LeftSiblingsTo(node, start, index) ==
    IF node.node_type # "Internal" THEN <<>>
    ELSE LET half == 2 ^ (node.height - 1)
         IN  IF index >= start + half
             THEN <<Unwrap(node.left).hash>>
                  \o LeftSiblingsTo(Unwrap(node.right), start + half, index)
             ELSE LeftSiblingsTo(Unwrap(node.left), start, index)

\* C23: for a perfect tree of L = 2^k leaves and 1 <= n <= L,
\* prove_most_recent_n_elements(n) emits exactly popcount(L - n) hashes, at
\* most k, each the hash of a left sibling on the path from the root to the
\* first suffix leaf, in top-down order; collect_proof_nodes never takes the
\* branch "suffix entirely in the left subtree, emit the right child"; and
\* verify_suffix_proof on that proof never carries an unpaired trailing
\* element forward.
C23_SuffixProofSize ==
    (outcome = [op |-> "tree.prove_most_recent_n_elements", status |-> "ok"]) =>
        LET L == num_leaves(TheTree)
            first_suffix_index == L - asked
            hashes == Unwrap(sproof).proof
        IN  /\ asked \in 1..L
            /\ Len(hashes) = Popcount(first_suffix_index)
            /\ Len(hashes) <= tree_height(TheTree)
            /\ hashes = LeftSiblingsTo(TheTree.root, 0, first_suffix_index)
            /\ \A j \in DOMAIN collect_proof_branches(TheTree.root, 0, L,
                                                      first_suffix_index, asked) :
                  collect_proof_branches(TheTree.root, 0, L,
                                         first_suffix_index, asked)[j] # "left"
            /\ verify_suffix_proof(TheTree, suffix, Unwrap(sproof)) = "ok"
            /\ VerifyLevelsCarried(hashes, suffix, Len(hashes), first_suffix_index) = 0

\* The proof of the last three of eight leaves: first suffix leaf 5 = 101b,
\* two left-sibling hashes.
C23_Witness ==
    /\ outcome = [op |-> "tree.prove_most_recent_n_elements", status |-> "ok"]
    /\ num_leaves(TheTree) = 8
    /\ asked = 3
    /\ Len(Unwrap(sproof).proof) = 2
    /\ Unwrap(sproof).proof[1] = Unwrap(TheTree.root.left).hash

====
